---- MODULE Spec2Model ----
(***************************************************************************)
(* Model of the FASTA record validation / classification / reformatting    *)
(* engine of rsv-analyzer: scripts/filterSeqs.py and                       *)
(* scripts/reformatSeqs.py (validate_sequences and their helpers).         *)
(*                                                                         *)
(* Text is modelled as a sequence of one-character strings.  A line of the *)
(* input file carries its terminator "\n" as its last character, as the    *)
(* lines produced by iterating a Python text file do.  Each element of     *)
(* output is the argument of one output.write call, each element of stderr *)
(* is one print(..., file=sys.stderr) call.                                *)
(***************************************************************************)
EXTENDS Integers, Sequences, FiniteSets, TLC

VARIABLES
    script,               \* which driver runs: "filterSeqs" or "reformatSeqs"
    seq_minlen,           \* --minlen
    seq_maxlen,           \* --maxlen
    maxambigs,            \* --maxambigs
    input,                \* the lines of input_file the loop has consumed so far
    header,               \* local variable header (None or the live header)
    sequence,             \* local variable sequence (body accumulator)
    output,               \* the strings written to the output file, in order
    seqids_above_cutoff,  \* the retained-ID list
    stderr,               \* the diagnostics printed to sys.stderr, in order
    pc,                   \* "loop": in the for loop; "done": returned
    arg,                  \* header_line handed to determine_subtype
    ret,                  \* value returned by determine_subtype (empty before the call)
    match,                \* include_pattern.search(arg): "match", "no match" ("unset" before the call)
    files,                \* the handles the script opened: input and output
    args                  \* which of args.input, args.output are given

vars == <<script, seq_minlen, seq_maxlen, maxambigs, input, header, sequence,
          output, seqids_above_cutoff, stderr, pc, arg, ret, match, files, args>>

driverVars == <<script, seq_minlen, seq_maxlen, maxambigs, input, header, sequence,
                output, seqids_above_cutoff, stderr, pc>>

----------------------------------------------------------------------------
(* Bounds *)

\* Largest number of lines in the input file.
MaxLines == 4

\* Largest number of text atoms in a header handed to determine_subtype.
MaxAtoms == 4

----------------------------------------------------------------------------
(* Python string primitives *)

NL == "\n"

\* The characters of the model's alphabet for which str.isspace() holds;
\* these are also the characters the regex class \s matches.
Whitespace == {" ", "\t", "\n"}

UpperLetters ==
    <<"A","B","C","D","E","F","G","H","I","J","K","L","M",
      "N","O","P","Q","R","S","T","U","V","W","X","Y","Z">>

LowerLetters ==
    <<"a","b","c","d","e","f","g","h","i","j","k","l","m",
      "n","o","p","q","r","s","t","u","v","w","x","y","z">>

DigitChars == <<"0","1","2","3","4","5","6","7","8","9">>

IsDigit(c) == \E i \in 1..10 : DigitChars[i] = c

upper_char(c) ==
    IF \E i \in 1..26 : LowerLetters[i] = c
    THEN UpperLetters[CHOOSE i \in 1..26 : LowerLetters[i] = c]
    ELSE c

lower_char(c) ==
    IF \E i \in 1..26 : UpperLetters[i] = c
    THEN LowerLetters[CHOOSE i \in 1..26 : UpperLetters[i] = c]
    ELSE c

\* str.upper()
upper(s) == [i \in 1..Len(s) |-> upper_char(s[i])]

\* str.lower()
lower(s) == [i \in 1..Len(s) |-> lower_char(s[i])]

RECURSIVE lstrip(_)
lstrip(s) ==
    IF s = <<>> THEN s
    ELSE IF Head(s) \in Whitespace THEN lstrip(Tail(s)) ELSE s

RECURSIVE rstrip(_)
rstrip(s) ==
    IF s = <<>> THEN s
    ELSE IF s[Len(s)] \in Whitespace THEN rstrip(SubSeq(s, 1, Len(s) - 1)) ELSE s

\* str.strip(): removes leading and trailing whitespace only
strip(s) == rstrip(lstrip(s))

\* str.startswith(c) for a one-character prefix
startswith(s, c) == s # <<>> /\ s[1] = c

\* str(n) for a non-negative integer
RECURSIVE str(_)
str(n) ==
    IF n < 10 THEN <<DigitChars[n + 1]>>
    ELSE str(n \div 10) \o <<DigitChars[(n % 10) + 1]>>

\* str.split() with no argument: tokens separated by runs of whitespace,
\* no empty tokens
RECURSIVE split_scan(_, _, _)
split_scan(s, cur, acc) ==
    IF s = <<>> THEN (IF cur = <<>> THEN acc ELSE Append(acc, cur))
    ELSE IF Head(s) \in Whitespace
         THEN split_scan(Tail(s), <<>>, IF cur = <<>> THEN acc ELSE Append(acc, cur))
         ELSE split_scan(Tail(s), Append(cur, Head(s)), acc)

split(s) == split_scan(s, <<>>, <<>>)

\* str.split(' '): splits at every single space, empty tokens kept
RECURSIVE split_sep_scan(_, _, _, _)
split_sep_scan(s, sep, cur, acc) ==
    IF s = <<>> THEN Append(acc, cur)
    ELSE IF Head(s) = sep
         THEN split_sep_scan(Tail(s), sep, <<>>, Append(acc, cur))
         ELSE split_sep_scan(Tail(s), sep, Append(cur, Head(s)), acc)

split_sep(s, sep) == split_sep_scan(s, sep, <<>>, <<>>)

\* " ".join(tokens)
RECURSIVE join(_)
join(toks) ==
    IF toks = <<>> THEN <<>>
    ELSE IF Len(toks) = 1 THEN toks[1]
    ELSE toks[1] \o <<" ">> \o join(Tail(toks))

----------------------------------------------------------------------------
(* Regular expressions: a pattern is a sequence of alternatives, an         *)
(* alternative is a sequence of items, an item is a literal character that  *)
(* is either required or optional (the ? quantifier).                       *)

lit(s) == [i \in 1..Len(s) |-> [ch |-> s[i], opt |-> FALSE]]

optional(c) == <<[ch |-> c, opt |-> TRUE]>>

RECURSIVE match_here(_, _)
match_here(items, s) ==
    IF items = <<>> THEN TRUE
    ELSE \/ /\ s # <<>>
            /\ Head(s) = Head(items).ch
            /\ match_here(Tail(items), Tail(s))
         \/ /\ Head(items).opt
            /\ match_here(Tail(items), s)

\* re.search(pattern, s) is not None
re_search(pattern, s) ==
    \E i \in 1..(Len(s) + 1) :
        \E k \in 1..Len(pattern) : match_here(pattern[k], SubSeq(s, i, Len(s)))

\* pattern compiled with re.IGNORECASE
ignorecase(pattern) ==
    [k \in 1..Len(pattern) |->
        [i \in 1..Len(pattern[k]) |->
            [ch |-> lower_char(pattern[k][i].ch), opt |-> pattern[k][i].opt]]]

re_search_ignorecase(pattern, s) == re_search(ignorecase(pattern), lower(s))

\* re.sub(r'\.\d+', '', s): every "." followed by one or more digits is
\* removed together with the whole run of digits
RECURSIVE drop_digits(_)
drop_digits(s) ==
    IF s # <<>> /\ IsDigit(Head(s)) THEN drop_digits(Tail(s)) ELSE s

RECURSIVE sub_version(_)
sub_version(s) ==
    IF s = <<>> THEN <<>>
    ELSE IF Head(s) = "." /\ Len(s) >= 2 /\ IsDigit(s[2])
         THEN sub_version(drop_digits(Tail(s)))
         ELSE <<Head(s)>> \o sub_version(Tail(s))

----------------------------------------------------------------------------
(* Helpers shared by the two scripts (textually the same function in       *)
(* filterSeqs.py and reformatSeqs.py)                                      *)

\* ambiguous_bases = "RYSMKWBVDHNX"
ambiguous_bases == {"R","Y","S","M","K","W","B","V","D","H","N","X"}

count_ambiguous_bases(s) ==
    Len(SelectSeq(upper(s), LAMBDA base : base \in ambiguous_bases))

\* remove_whitespace_regex returning its argument untouched
remove_whitespace_nothing(input_string) == input_string

\* re.sub(r'\s+', '', input_string)
remove_whitespace_regex(input_string) ==
    SelectSeq(input_string, LAMBDA c : c \notin Whitespace)

----------------------------------------------------------------------------
(* filterSeqs.py: subtype classifier and inclusion gate *)

RSV_A == <<"R","S","V","_","A">>
RSV_B == <<"R","S","V","_","B">>
UNKNOWN == <<"U","N","K","N","O","W","N">>

\* r'rsv/?a|virus a|rsva|subgroup a'
subtype_a_pattern ==
    << lit(<<"r","s","v">>) \o optional("/") \o lit(<<"a">>),
       lit(<<"v","i","r","u","s"," ","a">>),
       lit(<<"r","s","v","a">>),
       lit(<<"s","u","b","g","r","o","u","p"," ","a">>) >>

\* r'rsv/?b|virus b|rsvb|subgroup b'
subtype_b_pattern ==
    << lit(<<"r","s","v">>) \o optional("/") \o lit(<<"b">>),
       lit(<<"v","i","r","u","s"," ","b">>),
       lit(<<"r","s","v","b">>),
       lit(<<"s","u","b","g","r","o","u","p"," ","b">>) >>

\* determine_subtype without the lower-casing of the header
determine_subtype_case_sensitive(header_line) ==
    IF re_search(subtype_a_pattern, header_line) THEN RSV_A
    ELSE IF re_search(subtype_b_pattern, header_line) THEN RSV_B
    ELSE UNKNOWN

\* determine_subtype with the two branches in the opposite order
determine_subtype_b_first(header_line) ==
    LET header_lower == lower(header_line)
    IN  IF re_search(subtype_b_pattern, header_lower) THEN RSV_B
        ELSE IF re_search(subtype_a_pattern, header_lower) THEN RSV_A
        ELSE UNKNOWN

determine_subtype(header_line) ==
    LET header_lower == lower(header_line)
    IN  IF re_search(subtype_a_pattern, header_lower) THEN RSV_A
        ELSE IF re_search(subtype_b_pattern, header_lower) THEN RSV_B
        ELSE UNKNOWN

\* re.compile(r'rsv/A|rsv/B|virus A|virus B|rsva|rsvb|Subgroup', re.IGNORECASE)
include_pattern ==
    << lit(<<"r","s","v","/","A">>),
       lit(<<"r","s","v","/","B">>),
       lit(<<"v","i","r","u","s"," ","A">>),
       lit(<<"v","i","r","u","s"," ","B">>),
       lit(<<"r","s","v","a">>),
       lit(<<"r","s","v","b">>),
       lit(<<"S","u","b","g","r","o","u","p">>) >>

\* include_pattern.search without re.IGNORECASE
include_pattern_search_case_sensitive(h) == re_search(include_pattern, h)

\* include_pattern.search(header) is truthy
include_pattern_search(h) == re_search_ignorecase(include_pattern, h)

----------------------------------------------------------------------------
(* File handles *)

\* a handle the script has not opened
unopened == [open |-> FALSE, opens |-> 0]

no_files == [input |-> unopened, output |-> unopened]

\* open(path, mode) returned a handle
open_file(h) == [open |-> TRUE, opens |-> h.opens + 1]

\* handle.close(); closing a closed handle is a no-op
close_file(h) == [h EXCEPT !.open = FALSE]

\* both handles of the with statement entered
both_open == [input |-> open_file(unopened), output |-> open_file(unopened)]

\* leaving the with block, normally or by an exception, closes what it entered
with_exit(f) == [input |-> close_file(f.input), output |-> close_file(f.output)]

----------------------------------------------------------------------------
(* Driver state shared by the two validate_sequences functions *)

\* header = None.  A live header is never the empty string (it starts with
\* ">"), so the empty sequence stands for None; both are falsy in Python.
None == <<>>

\* one print(..., file=sys.stderr) call: the f-string's literal text with {}
\* for each substituted field, and the values substituted
diag(fmt, h, nums) == [fmt |-> fmt, header |-> h, nums |-> nums]

\* the result of processing one record: the new output, ID list and stderr
outcome(out, ids, err) == [output |-> out, seqids |-> ids, stderr |-> err]

unchanged_outcome == outcome(output, seqids_above_cutoff, stderr)

----------------------------------------------------------------------------
(* filterSeqs.py validate_sequences *)

\* filterSeqs_retain taking the ID as reformatSeqs.py does, with split(' ')
filterSeqs_retain_space_split(h, seq, seqlen) ==
    LET subtype == determine_subtype(h)
        raw_id  == Tail(split_sep(h, " ")[1])
        rest    == join(Tail(split(h)))
    IN  outcome(output \o << <<">">> \o raw_id \o <<"|">> \o subtype
                               \o <<" ","l","e","n","=">> \o str(seqlen)
                               \o <<" ">> \o rest \o <<NL>>,
                             seq \o <<NL>> >>,
                Append(seqids_above_cutoff, raw_id),
                stderr)

\* the two output.write calls and the append of a retained record
filterSeqs_retain(h, seq, seqlen) ==
    LET subtype == determine_subtype(h)
        raw_id  == Tail(split(h)[1])
        rest    == join(Tail(split(h)))
    IN  outcome(output \o << <<">">> \o raw_id \o <<"|">> \o subtype
                               \o <<" ","l","e","n","=">> \o str(seqlen)
                               \o <<" ">> \o rest \o <<NL>>,
                             seq \o <<NL>> >>,
                Append(seqids_above_cutoff, raw_id),
                stderr)

\* a rejection that prints nothing
filterSeqs_reject_silent(h, seqlen, ambiguous_count) ==
    outcome(output, seqids_above_cutoff, stderr)

\* the two prints of a rejected record
filterSeqs_reject(h, seqlen, ambiguous_count) ==
    outcome(output,
            seqids_above_cutoff,
            stderr \o << diag("validate_sequences:: {}", h, <<>>),
                         diag("validate_sequences:: sequence length: {} is outside the acceptable range [{}, {}] or ambiguous bases: {} > {}",
                              <<>>, <<seqlen, seq_minlen, seq_maxlen, ambiguous_count, maxambigs>>) >>)

\* "Process previous record": the body of `if header:` inside the loop
filterSeqs_process_previous(h, s) ==
    LET seq == remove_whitespace_regex(s)
        seqlen == Len(seq)
        ambiguous_count == count_ambiguous_bases(seq)
    IN  IF (seq_minlen <= seqlen /\ seqlen <= seq_maxlen) /\ (ambiguous_count <= maxambigs)
        THEN filterSeqs_retain(h, seq, seqlen)
        ELSE filterSeqs_reject(h, seqlen, ambiguous_count)

\* a final step that leaves the last record unprocessed
filterSeqs_process_final_nothing(h, s) == unchanged_outcome

\* "Process final record": the body of the `if` after the loop
filterSeqs_process_final(h, s) ==
    LET seq == remove_whitespace_regex(s)
        seqlen == Len(seq)
        ambiguous_count == count_ambiguous_bases(seq)
    IN  IF (seq_minlen <= seqlen /\ seqlen <= seq_maxlen) /\ (ambiguous_count <= maxambigs)
        THEN filterSeqs_retain(h, seq, seqlen)
        ELSE filterSeqs_reject(h, seqlen, ambiguous_count)

\* a gate that lets every header through
filterSeqs_skips_nothing(h) == FALSE

\* the gate applied to a freshly read header: TRUE when the header is skipped
filterSeqs_skips(h) == ~ include_pattern_search(h)

filterSeqs_skip_diag(h) ==
    diag("validate_sequences:: Skipping {} (does not match target pattern)", h, <<>>)

\* one iteration of `for line in input_file`
filterSeqs_line(line) ==
    /\ script = "filterSeqs"
    /\ pc = "loop"
    /\ Len(input) < MaxLines
    /\ input' = Append(input, line)
    /\ IF startswith(line, ">")
       THEN LET r == IF header # None
                     THEN filterSeqs_process_previous(header, sequence)
                     ELSE unchanged_outcome
                h == strip(line)
            IN  /\ output' = r.output
                /\ seqids_above_cutoff' = r.seqids
                /\ IF filterSeqs_skips(h)
                   THEN /\ stderr' = Append(r.stderr, filterSeqs_skip_diag(h))
                        /\ header' = None
                        /\ sequence' = <<>>
                   ELSE /\ stderr' = r.stderr
                        /\ header' = h
                        /\ sequence' = <<>>
       ELSE /\ sequence' = sequence \o strip(line)
            /\ UNCHANGED <<header, output, seqids_above_cutoff, stderr>>
    /\ UNCHANGED <<script, seq_minlen, seq_maxlen, maxambigs, pc, arg, ret, match, files, args>>

\* the loop ends at end-of-input; the final record is processed and
\* seqids_above_cutoff is returned
filterSeqs_eof ==
    /\ script = "filterSeqs"
    /\ pc = "loop"
    /\ LET r == IF header # None /\ include_pattern_search(header)
                THEN filterSeqs_process_final(header, sequence)
                ELSE unchanged_outcome
       IN  /\ output' = r.output
           /\ seqids_above_cutoff' = r.seqids
           /\ stderr' = r.stderr
    /\ files' = with_exit(files)
    /\ pc' = "done"
    /\ UNCHANGED <<script, seq_minlen, seq_maxlen, maxambigs, input, header, sequence,
                   arg, ret, match, args>>

----------------------------------------------------------------------------
(* reformatSeqs.py validate_sequences *)

\* the two output.write calls and the append of a retained record
reformatSeqs_retain(h, seq, seqlen) ==
    LET seqid == Tail(split_sep(h, " ")[1])
    IN  outcome(output \o << h \o <<" ","l","e","n","=">> \o str(seqlen) \o <<NL>>,
                             seq \o <<NL>> >>,
                Append(seqids_above_cutoff, seqid),
                stderr)

\* the body of `if header:` inside the loop
reformatSeqs_process_previous(h, s) ==
    LET seq == remove_whitespace_regex(s)
        seqlen == Len(seq)
        ambiguous_count == count_ambiguous_bases(seq)
    IN  IF (seq_minlen <= seqlen /\ seqlen <= seq_maxlen) /\ (ambiguous_count <= maxambigs)
        THEN reformatSeqs_retain(h, seq, seqlen)
        ELSE outcome(output,
                     seqids_above_cutoff,
                     stderr \o << diag("validate_sequences:: {}", h, <<>>),
                                  diag("validate_sequences:: sequence length:{} is outside the acceptable range [{}, {}] or ambiguous bases:{} > {}",
                                       <<>>, <<seqlen, seq_minlen, seq_maxlen, ambiguous_count, maxambigs>>) >>)

\* the body of `if header:` after the loop
reformatSeqs_process_final(h, s) ==
    LET seq == remove_whitespace_regex(s)
        seqlen == Len(seq)
        ambiguous_count == count_ambiguous_bases(seq)
    IN  IF seq_minlen <= seqlen /\ seqlen <= seq_maxlen /\ ambiguous_count < maxambigs
        THEN reformatSeqs_retain(h, seq, seqlen)
        ELSE outcome(output,
                     seqids_above_cutoff,
                     stderr \o << diag("validate_sequences:: {}", h, <<>>),
                                  diag("validate_sequences:: {} is outside the acceptable range [{}, {}] or {} > {}",
                                       <<>>, <<seqlen, seq_minlen, seq_maxlen, ambiguous_count, maxambigs>>) >>)

\* reformatSeqs_line without the reset of sequence at a header line
reformatSeqs_line_keeps_sequence(line) ==
    /\ script = "reformatSeqs"
    /\ pc = "loop"
    /\ Len(input) < MaxLines
    /\ input' = Append(input, line)
    /\ IF startswith(line, ">")
       THEN LET r == IF header # None
                     THEN reformatSeqs_process_previous(header, sequence)
                     ELSE unchanged_outcome
            IN  /\ output' = r.output
                /\ seqids_above_cutoff' = r.seqids
                /\ stderr' = r.stderr
                /\ header' = sub_version(strip(line))
                /\ sequence' = sequence
       ELSE /\ sequence' = sequence \o strip(line)
            /\ UNCHANGED <<header, output, seqids_above_cutoff, stderr>>
    /\ UNCHANGED <<script, seq_minlen, seq_maxlen, maxambigs, pc, arg, ret, match, files, args>>

\* one iteration of `for line in input_file`
reformatSeqs_line(line) ==
    /\ script = "reformatSeqs"
    /\ pc = "loop"
    /\ Len(input) < MaxLines
    /\ input' = Append(input, line)
    /\ IF startswith(line, ">")
       THEN LET r == IF header # None
                     THEN reformatSeqs_process_previous(header, sequence)
                     ELSE unchanged_outcome
            IN  /\ output' = r.output
                /\ seqids_above_cutoff' = r.seqids
                /\ stderr' = r.stderr
                /\ header' = sub_version(strip(line))
                /\ sequence' = <<>>
       ELSE /\ sequence' = sequence \o strip(line)
            /\ UNCHANGED <<header, output, seqids_above_cutoff, stderr>>
    /\ UNCHANGED <<script, seq_minlen, seq_maxlen, maxambigs, pc, arg, ret, match, files, args>>

\* the loop ends at end-of-input; the last record is processed and
\* seqids_above_cutoff is returned
reformatSeqs_eof ==
    /\ script = "reformatSeqs"
    /\ pc = "loop"
    /\ LET r == IF header # None
                THEN reformatSeqs_process_final(header, sequence)
                ELSE unchanged_outcome
       IN  /\ output' = r.output
           /\ seqids_above_cutoff' = r.seqids
           /\ stderr' = r.stderr
    /\ files' = with_exit(files)
    /\ pc' = "done"
    /\ UNCHANGED <<script, seq_minlen, seq_maxlen, maxambigs, input, header, sequence,
                   arg, ret, match, args>>

----------------------------------------------------------------------------
(* Inputs *)

\* header lines of the input file
HeaderLines ==
    { <<">","a",".","1"," ","r","s","v","/","A",NL>>,
      <<">","b","\t","v","i","r","u","s"," ","B",NL>>,
      <<">","c"," ","x",".","2",NL>> }

\* sequence (non-header) lines of the input file
BodyLines ==
    { <<NL>>,
      <<"A",NL>>,
      <<"A"," ","A",NL>>,
      <<" ","n","\t",NL>> }

Lines == HeaderLines \cup BodyLines

\* command-line configurations (--minlen, --maxlen, --maxambigs)
MinLens == {1}
MaxLens == {2, 3}
MaxAmbigs == {0, 1}

Init ==
    /\ script \in {"filterSeqs", "reformatSeqs"}
    /\ seq_minlen \in MinLens
    /\ seq_maxlen \in MaxLens
    /\ maxambigs \in MaxAmbigs
    /\ input = <<>>
    /\ header = None
    /\ sequence = <<>>
    /\ output = <<>>
    /\ seqids_above_cutoff = <<>>
    /\ stderr = <<>>
    /\ pc = "loop"
    /\ arg = <<>>
    /\ ret = <<>>
    /\ match = "unset"
    /\ files = both_open
    /\ args = [input |-> TRUE, output |-> TRUE]

Next ==
    \/ \E line \in Lines : filterSeqs_line(line)
    \/ filterSeqs_eof
    \/ \E line \in Lines : reformatSeqs_line(line)
    \/ reformatSeqs_eof

Spec == Init /\ [][Next]_vars

----------------------------------------------------------------------------
(* determine_subtype as a function of its argument *)

Atoms ==
    { <<"r","s","v">>, <<"R","S","V">>, <<"/">>, <<" ">>, <<"a">>, <<"b">>,
      <<"v","i","r","u","s">>, <<"s","u","b","g","r","o","u","p">>, <<"x">> }

RECURSIVE concat(_)
concat(ss) == IF ss = <<>> THEN <<>> ELSE Head(ss) \o concat(Tail(ss))

AtomSeqs == UNION { [1..n -> Atoms] : n \in 0..MaxAtoms }

SubtypeInit ==
    /\ script = "none"
    /\ seq_minlen = 0
    /\ seq_maxlen = 0
    /\ maxambigs = 0
    /\ input = <<>>
    /\ header = None
    /\ sequence = <<>>
    /\ output = <<>>
    /\ seqids_above_cutoff = <<>>
    /\ stderr = <<>>
    /\ pc = "idle"
    /\ \E ss \in AtomSeqs : arg = concat(ss)
    /\ ret = <<>>
    /\ match = "unset"
    /\ files = no_files
    /\ args = [input |-> FALSE, output |-> FALSE]

call_determine_subtype ==
    /\ pc = "idle"
    /\ ret = <<>>
    /\ ret' = determine_subtype(arg)
    /\ UNCHANGED <<driverVars, arg, match, files, args>>

\* include_pattern.search applied to the same header
call_include_pattern ==
    /\ pc = "idle"
    /\ match = "unset"
    /\ match' = IF include_pattern_search(arg) THEN "match" ELSE "no match"
    /\ UNCHANGED <<driverVars, arg, ret, files, args>>

SubtypeNext == call_determine_subtype \/ call_include_pattern

SpecSubtype == SubtypeInit /\ [][SubtypeNext]_vars

----------------------------------------------------------------------------
(* reformat_fasta.py reformat_stream *)

\* the string written for a line when every header of two or more tokens is
\* rewritten
reformat_stream_write_two_or_more(line) ==
    IF startswith(line, ">")
    THEN LET parts == split(strip(Tail(line)))
         IN  IF Len(parts) >= 2
             THEN <<">">> \o parts[1] \o <<"|","r","e","f","_">> \o parts[2] \o <<NL>>
             ELSE line
    ELSE line

\* the argument of the one out_stream.write call made for a line
reformat_stream_write(line) ==
    IF startswith(line, ">")
    THEN LET parts == split(strip(Tail(line)))
         IN  IF Len(parts) = 2
             THEN <<">">> \o parts[1] \o <<"|","r","e","f","_">> \o parts[2] \o <<NL>>
             ELSE line
    ELSE line

\* iteration over a text stream yields lines that end with "\n", except
\* possibly the last one
last_line_complete ==
    IF input = <<>> THEN TRUE
    ELSE LET last == input[Len(input)] IN last[Len(last)] = NL

\* one iteration of `for line in in_stream`
reformat_stream_line(line) ==
    /\ script = "reformat_fasta"
    /\ pc = "loop"
    /\ Len(input) < MaxLines
    /\ last_line_complete
    /\ input' = Append(input, line)
    /\ output' = Append(output, reformat_stream_write(line))
    /\ UNCHANGED <<seq_minlen, seq_maxlen, maxambigs, header, sequence,
                   seqids_above_cutoff, stderr>>
    /\ UNCHANGED <<script, pc, arg, ret, match, files, args>>

\* close() of the handles main opened itself
main_finally(f) ==
    [input  |-> IF args.input THEN close_file(f.input) ELSE f.input,
     output |-> IF args.output THEN close_file(f.output) ELSE f.output]

\* the stream is exhausted: reformat_stream returns and main's finally
\* clause closes the handles
reformat_stream_eof ==
    /\ script = "reformat_fasta"
    /\ pc = "loop"
    /\ files' = main_finally(files)
    /\ pc' = "done"
    /\ UNCHANGED <<seq_minlen, seq_maxlen, maxambigs, header, sequence,
                   seqids_above_cutoff, stderr>>
    /\ UNCHANGED <<script, input, output, arg, ret, match, args>>

ReformatLines ==
    { <<">","\n">>,
      <<">","x","\n">>,
      <<">","x"," ","y","\n">>,
      <<">","x","\t","y"," ","\n">>,
      <<">","x"," ","y"," ","z","\n">>,
      <<"A","\n">>,
      <<" ","A"," ","\n">>,
      <<">","x"," ","y">>,
      <<"A">> }

\* reformat_stream(infile, outfile) entered with the two files of main open
ReformatInit ==
    /\ script = "reformat_fasta"
    /\ seq_minlen = 0
    /\ seq_maxlen = 0
    /\ maxambigs = 0
    /\ input = <<>>
    /\ header = None
    /\ sequence = <<>>
    /\ output = <<>>
    /\ seqids_above_cutoff = <<>>
    /\ stderr = <<>>
    /\ pc = "loop"
    /\ arg = <<>>
    /\ ret = <<>>
    /\ match = "unset"
    /\ files = both_open
    /\ args = [input |-> TRUE, output |-> TRUE]

ReformatNext ==
    \/ \E line \in ReformatLines : reformat_stream_line(line)
    \/ reformat_stream_eof

SpecReformat == ReformatInit /\ [][ReformatNext]_vars

----------------------------------------------------------------------------
(* Opening and releasing the files: the three scripts from their start *)

\* with open(file_path, 'r') as input_file, open(output_file, 'w') as output:
\* both opened, or the first open raises, or the second open raises and the
\* with statement closes the first handle
validate_sequences_open ==
    /\ script \in {"filterSeqs", "reformatSeqs"}
    /\ pc = "start"
    /\ \/ /\ files' = [input  |-> open_file(files.input),
                       output |-> open_file(files.output)]
          /\ pc' = "loop"
       \/ /\ files' = files
          /\ pc' = "raised"
       \/ /\ files' = [files EXCEPT !.input = close_file(open_file(@))]
          /\ pc' = "raised"
    /\ UNCHANGED <<seq_minlen, seq_maxlen, maxambigs, input, header, sequence,
                   output, seqids_above_cutoff, stderr>>
    /\ UNCHANGED <<script, arg, ret, match, args>>

\* a read of input_file or a write to output raises inside the with block
validate_sequences_fault ==
    /\ script \in {"filterSeqs", "reformatSeqs"}
    /\ pc = "loop"
    /\ files' = with_exit(files)
    /\ pc' = "raised"
    /\ UNCHANGED <<seq_minlen, seq_maxlen, maxambigs, input, header, sequence,
                   output, seqids_above_cutoff, stderr>>
    /\ UNCHANGED <<script, arg, ret, match, args>>

\* infile = open(args.input, "r") if args.input else sys.stdin
main_open_input ==
    /\ script = "reformat_fasta"
    /\ pc = "start"
    /\ \/ /\ args.input
          /\ files' = [files EXCEPT !.input = open_file(@)]
          /\ pc' = "open_output"
       \/ /\ args.input
          /\ files' = files
          /\ pc' = "raised"
       \/ /\ ~ args.input
          /\ files' = files
          /\ pc' = "open_output"
    /\ UNCHANGED <<seq_minlen, seq_maxlen, maxambigs, input, header, sequence,
                   output, seqids_above_cutoff, stderr>>
    /\ UNCHANGED <<script, arg, ret, match, args>>

\* outfile = open(args.output, "w") if args.output else sys.stdout; the
\* statement stands before the try, so an exception leaves main at once
main_open_output ==
    /\ script = "reformat_fasta"
    /\ pc = "open_output"
    /\ \/ /\ args.output
          /\ files' = [files EXCEPT !.output = open_file(@)]
          /\ pc' = "loop"
       \/ /\ args.output
          /\ files' = files
          /\ pc' = "raised"
       \/ /\ ~ args.output
          /\ files' = files
          /\ pc' = "loop"
    /\ UNCHANGED <<seq_minlen, seq_maxlen, maxambigs, input, header, sequence,
                   output, seqids_above_cutoff, stderr>>
    /\ UNCHANGED <<script, arg, ret, match, args>>

\* a read or a write raises inside reformat_stream; the finally clause runs
reformat_stream_fault ==
    /\ script = "reformat_fasta"
    /\ pc = "loop"
    /\ files' = main_finally(files)
    /\ pc' = "raised"
    /\ UNCHANGED <<seq_minlen, seq_maxlen, maxambigs, input, header, sequence,
                   output, seqids_above_cutoff, stderr>>
    /\ UNCHANGED <<script, arg, ret, match, args>>

HandlesLines == { <<">","a",".","1"," ","r","s","v","/","A","\n">>, <<"A","\n">>, <<" ","n","\t","\n">> }

HandlesReformatLines == { <<">","x"," ","y","\n">>, <<"A","\n">> }

HandlesInit ==
    /\ script \in {"filterSeqs", "reformatSeqs", "reformat_fasta"}
    /\ IF script = "reformat_fasta"
       THEN /\ seq_minlen = 0
            /\ seq_maxlen = 0
            /\ maxambigs = 0
            /\ args \in [input : BOOLEAN, output : BOOLEAN]
       ELSE /\ seq_minlen \in MinLens
            /\ seq_maxlen \in MaxLens
            /\ maxambigs \in MaxAmbigs
            /\ args = [input |-> TRUE, output |-> TRUE]
    /\ input = <<>>
    /\ header = None
    /\ sequence = <<>>
    /\ output = <<>>
    /\ seqids_above_cutoff = <<>>
    /\ stderr = <<>>
    /\ pc = "start"
    /\ arg = <<>>
    /\ ret = <<>>
    /\ match = "unset"
    /\ files = no_files

HandlesNext ==
    \/ validate_sequences_open
    \/ validate_sequences_fault
    \/ \E line \in HandlesLines : filterSeqs_line(line)
    \/ filterSeqs_eof
    \/ \E line \in HandlesLines : reformatSeqs_line(line)
    \/ reformatSeqs_eof
    \/ main_open_input
    \/ main_open_output
    \/ \E line \in HandlesReformatLines : reformat_stream_line(line)
    \/ reformat_stream_eof
    \/ reformat_stream_fault

SpecHandles == HandlesInit /\ [][HandlesNext]_vars

----------------------------------------------------------------------------
(* Vocabulary of the properties: records as the specification defines      *)
(* them, read off the input consumed so far                                *)

Contains(s, sub) ==
    \E i \in 1..(Len(s) - Len(sub) + 1) : SubSeq(s, i, i + Len(sub) - 1) = sub

ContainsAny(s, forms) == \E f \in forms : Contains(s, f)

IsHeaderLine(l) == l # <<>> /\ Head(l) = ">"

HeaderIdx(inp) == {i \in 1..Len(inp) : IsHeaderLine(inp[i])}

\* index of the last header line, 0 when there is none
LastHeaderIdx(inp) ==
    IF HeaderIdx(inp) = {} THEN 0
    ELSE CHOOSE i \in HeaderIdx(inp) : \A j \in HeaderIdx(inp) : j <= i

\* index of the last line of the record whose header is line i
RecordEnd(inp, i) ==
    IF \E j \in HeaderIdx(inp) : j > i
    THEN (CHOOSE j \in HeaderIdx(inp) : j > i /\ \A k \in HeaderIdx(inp) : k > i => j <= k) - 1
    ELSE Len(inp)

NonSpace(s) == SelectSeq(s, LAMBDA c : c # " " /\ c # "\t" /\ c # "\n")

\* the record's sequence: its body lines with all whitespace removed
RecordSequence(inp, i) == NonSpace(concat(SubSeq(inp, i + 1, RecordEnd(inp, i))))

RecordLength(inp, i) == Len(RecordSequence(inp, i))

AmbiguousSymbols ==
    {"R","Y","S","M","K","W","B","V","D","H","N","X",
     "r","y","s","m","k","w","b","v","d","h","n","x"}

RecordAmbigs(inp, i) ==
    Cardinality({k \in 1..RecordLength(inp, i) : RecordSequence(inp, i)[k] \in AmbiguousSymbols})

\* the Record Validator's policy
Valid(len, amb) == seq_minlen <= len /\ len <= seq_maxlen /\ amb <= maxambigs

\* the inclusion gate's vocabulary, lower-cased
GateForms ==
    { <<"r","s","v","/","a">>, <<"r","s","v","/","b">>,
      <<"v","i","r","u","s"," ","a">>, <<"v","i","r","u","s"," ","b">>,
      <<"r","s","v","a">>, <<"r","s","v","b">>,
      <<"s","u","b","g","r","o","u","p">> }

\* the header line passes the inclusion gate of the driver that runs
PassesGate(l) == script = "filterSeqs" => ContainsAny(lower(l), GateForms)

\* text up to the first character of the set stop
RECURSIVE TakeUntil(_, _)
TakeUntil(s, stop) ==
    IF s = <<>> \/ Head(s) \in stop THEN <<>>
    ELSE <<Head(s)>> \o TakeUntil(Tail(s), stop)

\* first whitespace-delimited token of a header, without the leading ">"
AccessionOf(h) == TakeUntil(Tail(h), {" ", "\t", "\n"})

\* the accession without a version suffix
AccessionStem(h) == TakeUntil(Tail(h), {" ", "\t", "\n", "."})

\* a record is live: the last header line read passed the gate
LiveRecord == LastHeaderIdx(input) > 0 /\ PassesGate(input[LastHeaderIdx(input)])

LiveLength == RecordLength(input, LastHeaderIdx(input))
LiveAmbigs == RecordAmbigs(input, LastHeaderIdx(input))

ReadsHeader == Len(input') = Len(input) + 1 /\ IsHeaderLine(input'[Len(input')])
ReachesEnd == pc = "loop" /\ pc' = "done"

\* the step finalizes the live record: it reads the next header line or
\* reaches end-of-input
Finalizes == LiveRecord /\ (ReadsHeader \/ ReachesEnd)

Retained ==
    /\ Len(output') = Len(output) + 2
    /\ SubSeq(output', 1, Len(output)) = output
    /\ Len(seqids_above_cutoff') = Len(seqids_above_cutoff) + 1

Rejected == output' = output /\ seqids_above_cutoff' = seqids_above_cutoff

\* what a diagnostic reports, apart from its wording
Reports(err) == [i \in 1..Len(err) |-> <<err[i].header, err[i].nums>>]

SkipFmt == "validate_sequences:: Skipping {} (does not match target pattern)"

----------------------------------------------------------------------------
(* C1 .. C4: the end-of-input path against the mid-stream path *)

C1_Step ==
    (ReachesEnd /\ header # None) =>
        LET r == IF script = "filterSeqs"
                 THEN filterSeqs_process_previous(header, sequence)
                 ELSE reformatSeqs_process_previous(header, sequence)
        IN  /\ output' = r.output
            /\ seqids_above_cutoff' = r.seqids
            /\ Reports(stderr') = Reports(r.stderr)

\* C1: a record terminated by end-of-input is finalized with the same
\* outcome (decision, emitted header and sequence lines, retained ID, what
\* the diagnostic reports) as the mid-stream finalization gives that record.
C1_FinalSameAsMidStream == [][C1_Step]_vars

C2_Step ==
    (Finalizes /\ seq_minlen <= LiveLength /\ LiveLength <= seq_maxlen) =>
        /\ (LiveAmbigs = maxambigs => Retained)
        /\ (LiveAmbigs = maxambigs + 1 => Rejected)

\* C2: at every position of the stream, a record whose length is within
\* [min_len, max_len] is retained when ambiguous_count = max_ambigs and
\* rejected when ambiguous_count = max_ambigs + 1.
C2_AmbiguityCeilingInclusive == [][C2_Step]_vars

C3_Step ==
    (Finalizes /\ LiveAmbigs <= maxambigs) =>
        /\ (LiveLength = seq_minlen \/ LiveLength = seq_maxlen) => Retained
        /\ (LiveLength = seq_minlen - 1 \/ LiveLength = seq_maxlen + 1) => Rejected
        /\ (LiveLength < seq_minlen \/ LiveLength > seq_maxlen) => output' = output

\* C3: a record with ambiguous_count <= max_ambigs is retained when its
\* length equals min_len or max_len, rejected one unit outside, and no
\* record with a length outside [min_len, max_len] is written.
C3_LengthBoundsInclusive == [][C3_Step]_vars

\* one string written, holding exactly one line
OneLine(w) == w # <<>> /\ w[Len(w)] = NL /\ \A j \in 1..(Len(w) - 1) : w[j] # NL

TwoLineBlocks(out) ==
    /\ Len(out) % 2 = 0
    /\ \A k \in 1..Len(out) : OneLine(out[k]) /\ (k % 2 = 1 => Head(out[k]) = ">")

RetainableIdx(inp) ==
    {i \in HeaderIdx(inp) :
        PassesGate(inp[i]) /\ Valid(RecordLength(inp, i), RecordAmbigs(inp, i))}

\* C4: when validate_sequences has finished, the output is made of two-line
\* blocks and their number is the number of headers whose record passes the
\* gate and satisfies min_len <= length <= max_len, ambiguous_count <= max_ambigs.
C4_BlocksEqualValidHeaders ==
    pc = "done" =>
        /\ TwoLineBlocks(output)
        /\ Len(output) = 2 * Cardinality(RetainableIdx(input))

----------------------------------------------------------------------------
(* C5: length after whitespace removal *)

LenKey == <<" ","l","e","n","=">>

RECURSIVE TakeDigits(_)
TakeDigits(s) ==
    IF s # <<>> /\ IsDigit(Head(s)) THEN <<Head(s)>> \o TakeDigits(Tail(s)) ELSE <<>>

DigitValue(c) == (CHOOSE i \in 1..10 : DigitChars[i] = c) - 1

RECURSIVE ParseNat(_)
ParseNat(ds) ==
    IF ds = <<>> THEN 0
    ELSE ParseNat(SubSeq(ds, 1, Len(ds) - 1)) * 10 + DigitValue(ds[Len(ds)])

\* the digits that follow the first " len=" of a written header
LenDigits(hl) ==
    LET p == CHOOSE q \in 1..Len(hl) :
                 /\ SubSeq(hl, q, q + 4) = LenKey
                 /\ \A q2 \in 1..(q - 1) : SubSeq(hl, q2, q2 + 4) # LenKey
    IN  TakeDigits(SubSeq(hl, p + 5, Len(hl)))

C5_Step ==
    output' # output =>
        /\ LastHeaderIdx(input) > 0
        /\ Len(output') = Len(output) + 2
        /\ SubSeq(output', 1, Len(output)) = output
        /\ LET hl == output'[Len(output) + 1]
               sl == output'[Len(output) + 2]
           IN  /\ sl[Len(sl)] = NL
               /\ \A k \in 1..(Len(sl) - 1) : sl[k] \notin {" ", "\t", "\n"}
               /\ Len(sl) - 1 = LiveLength
               /\ Contains(hl, LenKey)
               /\ LenDigits(hl) # <<>>
               /\ ParseNat(LenDigits(hl)) = LiveLength

\* C5: every write emits a header line and a sequence line; the sequence
\* line has no whitespace and as many characters as the record's body lines
\* have non-whitespace characters, and the header's len= value is that count.
C5_LengthAfterWhitespaceRemoval == [][C5_Step]_vars

\* a record whose only body line has an embedded space has been written
C5_Witness ==
    /\ pc = "done"
    /\ Len(input) = 2
    /\ input[2] = <<"A"," ","A",NL>>
    /\ Len(output) = 2
    /\ output[2] = <<"A","A",NL>>

----------------------------------------------------------------------------
(* C6: rejection *)

C6_Step ==
    (Finalizes /\ ~ Valid(LiveLength, LiveAmbigs)) =>
        /\ output' = output
        /\ seqids_above_cutoff' = seqids_above_cutoff
        /\ Len(stderr') >= Len(stderr) + 2
        /\ SubSeq(stderr', 1, Len(stderr)) = stderr
        /\ LET d1 == stderr'[Len(stderr) + 1]
               d2 == stderr'[Len(stderr) + 2]
           IN  /\ IsHeaderLine(d1.header)
               /\ AccessionStem(d1.header) = AccessionStem(input[LastHeaderIdx(input)])
               /\ d2.nums = <<LiveLength, seq_minlen, seq_maxlen, LiveAmbigs, maxambigs>>
        /\ ReadsHeader =>
              /\ pc' = "loop"
              /\ sequence' = <<>>
              /\ PassesGate(input'[Len(input')]) => header' # None

\* C6: finalizing a record that fails validation leaves the output and the
\* retained-ID list unchanged, prints a diagnostic naming the header with the
\* observed length, the range, the ambiguous count and max_ambigs, and the
\* run goes on with the header line that ended the record.
C6_RejectionIsNonFatal == [][C6_Step]_vars

\* the first record was rejected and a later record was written
C6_Witness ==
    /\ pc = "done"
    /\ 1 \in HeaderIdx(input)
    /\ PassesGate(input[1])
    /\ ~ Valid(RecordLength(input, 1), RecordAmbigs(input, 1))
    /\ Len(stderr) >= 2
    /\ Len(output) >= 2

----------------------------------------------------------------------------
(* C7: the inclusion gate of filterSeqs *)

SkipDiags(err) == SelectSeq(err, LAMBDA d : d.fmt = SkipFmt)

ExcludedHeaderLines(inp) ==
    SelectSeq(inp, LAMBDA l : IsHeaderLine(l) /\ ~ ContainsAny(lower(l), GateForms))

IncludedHeaderLines(inp) ==
    SelectSeq(inp, LAMBDA l : IsHeaderLine(l) /\ ContainsAny(lower(l), GateForms))

\* C7: in filterSeqs every header line matching none of the seven forms
\* gets exactly one skip diagnostic naming it, and neither an output line,
\* nor a retained ID, nor a validation diagnostic.
C7_ExcludedHeaderOnlySkipped ==
    script = "filterSeqs" =>
        /\ Len(SkipDiags(stderr)) = Len(ExcludedHeaderLines(input))
        /\ \A k \in 1..Len(SkipDiags(stderr)) :
              SkipDiags(stderr)[k].header = strip(ExcludedHeaderLines(input)[k])
        /\ \A k \in 1..Len(stderr) :
              (stderr[k].fmt # SkipFmt /\ stderr[k].header # <<>>)
                  => ContainsAny(lower(stderr[k].header), GateForms)
        /\ Len(output) = 2 * Len(seqids_above_cutoff)
        /\ \A k \in 1..Len(seqids_above_cutoff) :
              \E j \in 1..Len(IncludedHeaderLines(input)) :
                  seqids_above_cutoff[k] = AccessionOf(IncludedHeaderLines(input)[j])
        /\ Len(seqids_above_cutoff)
             + Cardinality({k \in 1..Len(stderr) : stderr[k].nums # <<>>})
             <= Len(IncludedHeaderLines(input))

\* the last header of the stream was excluded although a valid body follows
C7_Witness ==
    /\ script = "filterSeqs"
    /\ pc = "done"
    /\ LastHeaderIdx(input) > 0
    /\ LastHeaderIdx(input) < Len(input)
    /\ ~ ContainsAny(lower(input[LastHeaderIdx(input)]), GateForms)
    /\ Valid(LiveLength, LiveAmbigs)
    /\ Len(SkipDiags(stderr)) >= 1

----------------------------------------------------------------------------
(* C8: the retained-ID list *)

\* accession ID of a written header line
WrittenAccession(hl) ==
    IF script = "filterSeqs"
    THEN TakeUntil(Tail(hl), {" ", "\t", "\n", "|"})
    ELSE AccessionOf(hl)

C8_State ==
    /\ Len(output) = 2 * Len(seqids_above_cutoff)
    /\ \A i \in 1..Len(seqids_above_cutoff) :
          seqids_above_cutoff[i] = WrittenAccession(output[2 * i - 1])

\* C8: the i-th element of the retained-ID list is the accession ID of the
\* i-th record written, and the list has one element per written header.
C8_IdsMatchWrittenRecords == C8_State

\* the retained-ID list is only ever extended at its end
IdsAppendOnly ==
    [][/\ Len(seqids_above_cutoff') >= Len(seqids_above_cutoff)
       /\ SubSeq(seqids_above_cutoff', 1, Len(seqids_above_cutoff)) = seqids_above_cutoff]_vars

----------------------------------------------------------------------------
(* C9, C10: determine_subtype *)

AFormsSpecified ==
    { <<"r","s","v","/","a">>, <<"r","s","v"," ","a">>, <<"v","i","r","u","s"," ","a">>,
      <<"r","s","v","a">>, <<"s","u","b","g","r","o","u","p"," ","a">> }

BFormsSpecified ==
    { <<"r","s","v","/","b">>, <<"r","s","v"," ","b">>, <<"v","i","r","u","s"," ","b">>,
      <<"r","s","v","b">>, <<"s","u","b","g","r","o","u","p"," ","b">> }

\* the forms without `rsv a` and `rsv b`
AForms == AFormsSpecified \ { <<"r","s","v"," ","a">> }
BForms == BFormsSpecified \ { <<"r","s","v"," ","b">> }

Classifies(aforms, bforms) ==
    ret # <<>> =>
        /\ ContainsAny(lower(arg), aforms) => ret = RSV_A
        /\ (~ ContainsAny(lower(arg), aforms) /\ ContainsAny(lower(arg), bforms)) => ret = RSV_B
        /\ ret = UNKNOWN <=> ~ ContainsAny(lower(arg), aforms \cup bforms)

\* C9 as stated: RSV_A for `rsv/a`, `rsv a`, `virus a`, `rsva`, `subgroup a`;
\* else RSV_B for the five B-forms; UNKNOWN exactly when none of the ten.
C9_TenForms == Classifies(AFormsSpecified, BFormsSpecified)

\* C9 amended: RSV_A for `rsv/a`, `rsva`, `virus a`, `subgroup a`; else RSV_B
\* for `rsv/b`, `rsvb`, `virus b`, `subgroup b`; UNKNOWN exactly when the
\* lower-cased header contains none of these eight forms.
C9_EightForms == Classifies(AForms, BForms)

\* a header holding `rsv a` and none of the eight forms was classified UNKNOWN
C9_Witness ==
    /\ Contains(lower(arg), <<"r","s","v"," ","a">>)
    /\ ~ ContainsAny(lower(arg), AForms \cup BForms)
    /\ ret = UNKNOWN

\* C10: a header matching an A-form and a B-form is RSV_A whatever their
\* order in the text, and RSV_B is returned only when no A-form matches.
C10_AFormWins ==
    ret # <<>> =>
        /\ (ContainsAny(lower(arg), AForms) /\ ContainsAny(lower(arg), BForms)) => ret = RSV_A
        /\ ret = RSV_B => ~ ContainsAny(lower(arg), AForms)

\* a header whose B-form comes before its A-form was classified RSV_A
C10_Witness ==
    /\ arg = <<"r","s","v","b","r","s","v","a">>
    /\ ret = RSV_A

----------------------------------------------------------------------------
(* C11, C12: the rewritten header *)

\* whitespace-delimited tokens of a text
RECURSIVE Tokens(_)
Tokens(s) ==
    IF s = <<>> THEN <<>>
    ELSE IF Head(s) \in {" ", "\t", "\n"} THEN Tokens(Tail(s))
    ELSE LET tok == TakeUntil(s, {" ", "\t", "\n"})
         IN  <<tok>> \o Tokens(SubSeq(s, Len(tok) + 1, Len(s)))

LiveHeaderLine == input[LastHeaderIdx(input)]

C11_Step ==
    (script = "filterSeqs" /\ output' # output) =>
        LET toks == Tokens(LiveHeaderLine)
            accession_id == Tail(toks[1])
        IN  /\ LastHeaderIdx(input) > 0
            /\ Len(output') = Len(output) + 2
            /\ output'[Len(output) + 1] =
                   <<">">> \o accession_id \o <<"|">> \o determine_subtype(strip(LiveHeaderLine))
                   \o LenKey \o str(LiveLength) \o <<" ">> \o join(Tail(toks)) \o <<NL>>
            /\ seqids_above_cutoff' = Append(seqids_above_cutoff, accession_id)

\* C11: in filterSeqs the header written for a retained record is
\* > accession_id | subtype, " len=" length, " " rest_of_description, with
\* accession_id the first whitespace-delimited token of the input header
\* without its ">", and that accession_id is the ID appended to the list.
C11_AnnotatedHeader == [][C11_Step]_vars

\* filterSeqs wrote the record whose ID is followed by a tab
C11_Witness ==
    /\ script = "filterSeqs"
    /\ Len(output) >= 2
    /\ seqids_above_cutoff[1] = <<"b">>
    /\ output[1] = <<">","b","|","R","S","V","_","B"," ","l","e","n","=","1",
                     " ","v","i","r","u","s"," ","B",NL>>

RECURSIVE TrailingDigits(_)
TrailingDigits(s) ==
    IF s # <<>> /\ IsDigit(s[Len(s)]) THEN 1 + TrailingDigits(SubSeq(s, 1, Len(s) - 1)) ELSE 0

\* a header with the .<digits> suffix of its accession token removed and
\* every other character kept
StripAccessionVersion(h) ==
    LET tok  == TakeUntil(h, {" ", "\t", "\n"})
        rest == SubSeq(h, Len(tok) + 1, Len(h))
        n    == TrailingDigits(tok)
    IN  IF n > 0 /\ Len(tok) > n /\ tok[Len(tok) - n] = "."
        THEN SubSeq(tok, 1, Len(tok) - n - 1) \o rest
        ELSE h

C12_Step ==
    (script = "reformatSeqs" /\ output' # output) =>
        /\ LastHeaderIdx(input) > 0
        /\ output'[Len(output) + 1] =
               StripAccessionVersion(strip(LiveHeaderLine)) \o LenKey \o str(LiveLength) \o <<NL>>

\* C12: in reformatSeqs the header written for a retained record is the
\* input header with only the .<digits> suffix of the accession token
\* removed, followed by " len=" length; .<digits> later in the description
\* is emitted unchanged.
C12_OnlyAccessionVersionStripped == [][C12_Step]_vars

----------------------------------------------------------------------------
(* C14, C16, C17: tokenization *)

NewDiags == SubSeq(stderr', Len(stderr) + 1, Len(stderr'))

C14_Step ==
    /\ output' # output =>
          /\ LiveRecord
          /\ Len(output') = Len(output) + 2
          /\ output'[Len(output) + 2] = RecordSequence(input, LastHeaderIdx(input)) \o <<NL>>
    /\ \A k \in 1..Len(NewDiags) :
          NewDiags[k].nums # <<>> =>
              /\ LiveRecord
              /\ NewDiags[k].nums[1] = LiveLength
              /\ NewDiags[k].nums[4] = LiveAmbigs
    /\ (~ LiveRecord) =>
          /\ output' = output
          /\ seqids_above_cutoff' = seqids_above_cutoff
          /\ \A k \in 1..Len(NewDiags) : NewDiags[k].fmt = SkipFmt
    /\ (Len(input') = Len(input) + 1 /\ ~ IsHeaderLine(input'[Len(input')])) =>
          /\ output' = output
          /\ stderr' = stderr

\* C14: the sequence written for a record is the concatenation of the
\* whitespace-stripped non-header lines between its own header line and the
\* next ">" line or end-of-input; lines before the first header or after an
\* excluded header reach no output, no length, no ambiguous count and
\* produce no diagnostic.
C14_BodyIsOwnLines == [][C14_Step]_vars

\* a sequence line came before the first header and the record after it
\* was written with its own body only
C14_Witness ==
    /\ pc = "done"
    /\ Len(input) = 4
    /\ input[1] = <<"A",NL>>
    /\ IsHeaderLine(input[2])
    /\ input[3] = <<"A"," ","A",NL>>
    /\ IsHeaderLine(input[4])
    /\ output # <<>>
    /\ output[2] = <<"A","A",NL>>

\* C16: while the driver awaits a header (header is None) the body buffer
\* is empty.
C16_NoBodyWhileAwaiting == (pc = "loop" /\ header = None) => sequence = <<>>

Finalizations ==
    Len(seqids_above_cutoff) + Cardinality({k \in 1..Len(stderr) : stderr[k].nums # <<>>})

\* the live records whose terminating event has been read
TerminatedIdx ==
    {i \in HeaderIdx(input) :
        PassesGate(input[i]) /\ (i < LastHeaderIdx(input) \/ pc = "done")}

C17_Step ==
    /\ pc = "loop"
    /\ \/ Len(input') = Len(input) + 1 /\ pc' = "loop"
       \/ input' = input /\ pc' = "done"
    /\ Finalizations' = Finalizations + (IF Finalizes THEN 1 ELSE 0)
    /\ Len(output') - Len(output) = 2 * (Len(seqids_above_cutoff') - Len(seqids_above_cutoff))
    /\ (~ LiveRecord) => (output' = output /\ seqids_above_cutoff' = seqids_above_cutoff)

\* C17: every step of the driver consumes one more line or is its last
\* step, after which it takes no other; a step finalizes a record (writes or
\* logs it) exactly when it reads the header line or the end-of-input that
\* follows a live record, never earlier and never twice, so no record is
\* pending at the stop; without a live record nothing is written, so a
\* header-less input gives empty output and an empty ID list.
C17_EachRecordFinalizedOnce == [][C17_Step]_vars

\* the driver stopped after two records, one written and one logged
C17_Witness ==
    /\ pc = "done"
    /\ Cardinality(TerminatedIdx) = 2
    /\ LastHeaderIdx(input) < Len(input)
    /\ Len(seqids_above_cutoff) = 1
    /\ Finalizations = 2

----------------------------------------------------------------------------
(* C18: the inclusion gate against the classifier *)

\* the gate alternatives other than `Subgroup`, lower-cased
TypedGateForms == GateForms \ { <<"s","u","b","g","r","o","u","p">> }

\* C18: once both functions were applied to a header: a header classified
\* RSV_A or RSV_B passes the inclusion gate; a header holding one of
\* `rsv/a`, `rsv/b`, `virus a`, `virus b`, `rsva`, `rsvb` in any case is
\* classified RSV_A or RSV_B; so a header that passes the gate and is
\* classified UNKNOWN contains `subgroup` in some case.
C18_GateAgreesWithSubtype ==
    (ret # <<>> /\ match # "unset") =>
        /\ ret \in {RSV_A, RSV_B} => match = "match"
        /\ ContainsAny(lower(arg), TypedGateForms) => (match = "match" /\ ret \in {RSV_A, RSV_B})
        /\ (match = "match" /\ ret = UNKNOWN) =>
               Contains(lower(arg), <<"s","u","b","g","r","o","u","p">>)

\* an upper-case `RSV/b` header was classified RSV_B and passed the gate, and
\* so did a `subgroup` header classified UNKNOWN
C18_Witness ==
    /\ match = "match"
    /\ \/ arg = <<"R","S","V","/","b">> /\ ret = RSV_B
       \/ arg = <<"s","u","b","g","r","o","u","p","x">> /\ ret = UNKNOWN

----------------------------------------------------------------------------
(* C13: reformat_stream *)

\* the line the property expects for an input line
ExpectedLine(l) ==
    LET toks == IF IsHeaderLine(l) THEN Tokens(Tail(l)) ELSE <<>>
    IN  IF Len(toks) = 2
        THEN <<">">> \o toks[1] \o <<"|","r","e","f","_">> \o toks[2] \o <<NL>>
        ELSE l

\* C13: reformat_stream has written one string per line read, in input
\* order: `>ID|ref_ACC` and a line terminator for a header line with exactly
\* two whitespace-delimited tokens ID and ACC after `>`, and the line itself
\* for every other line.
C13_OneLinePerLine ==
    script = "reformat_fasta" =>
        /\ Len(output) = Len(input)
        /\ \A i \in 1..Len(input) : output[i] = ExpectedLine(input[i])

\* a stream with a two-token header, a three-token header, a one-token
\* header and a sequence line was rewritten
C13_Witness ==
    /\ script = "reformat_fasta"
    /\ pc = "done"
    /\ input = << <<">","x","\t","y"," ","\n">>, <<">","x"," ","y"," ","z","\n">>, <<">","x","\n">>, <<" ","A"," ","\n">> >>
    /\ output = << <<">","x","|","r","e","f","_","y","\n">>, <<">","x"," ","y"," ","z","\n">>, <<">","x","\n">>, <<" ","A"," ","\n">> >>

----------------------------------------------------------------------------
(* C15: the file handles *)

RunEnded == pc \in {"done", "raised"}

OpenedAtMostOnce == files.input.opens <= 1 /\ files.output.opens <= 1

\* C15: in each of the three scripts the input and the output are opened at
\* most once, and when the run has ended - by normal completion, with
\* rejected records, by a failed open of the input, by a failed open of the
\* output after the input was opened, or by a read or write fault in
\* mid-stream - no handle the script opened is still open.
C15_HandlesReleased ==
    /\ OpenedAtMostOnce
    /\ RunEnded => (~ files.input.open /\ ~ files.output.open)

\* the run of reformat_fasta.main that ended by the failed open of the output
\* after the input was opened
OutputOpenFailed ==
    /\ script = "reformat_fasta"
    /\ pc = "raised"
    /\ args.input /\ args.output
    /\ files.input.opens = 1
    /\ files.output.opens = 0

\* every other ended run has released what it opened
HandlesReleasedUnlessOutputOpenFails ==
    /\ OpenedAtMostOnce
    /\ (RunEnded /\ ~ OutputOpenFailed) => (~ files.input.open /\ ~ files.output.open)

====
